---- MODULE Spec2Model ----
(***************************************************************************)
(* A model of secretstream.go: the XChaCha20-Poly1305 secret stream        *)
(* encoder (SecretStreamXCPEncoder) and decoder (SecretStreamXCPDecoder)    *)
(* that wrap an io.Writer / io.Reader around libsodium's                    *)
(* crypto_secretstream_xchacha20poly1305_{push,pull}.                       *)
(*                                                                         *)
(* The AEAD primitive is modelled symbolically.  The j-th byte of the       *)
(* frame produced by the k-th push of the encoder is the pair <<k, j>>;     *)
(* what that frame seals (plaintext, associated data, tag) is sealed[k].    *)
(* A byte changed in transit is <<k, -j>>, a byte of a freshly made scratch *)
(* buffer is <<0, 0>>, and memory past the end of a buffer is <<-1, -1>>.   *)
(* pull accepts a frame exactly when it is, byte for byte, the frame of the *)
(* push the decoder state is at, opened with the associated data it was     *)
(* sealed with.  The decoder is built with the encoder's key and header.    *)
(***************************************************************************)
EXTENDS Integers, Sequences, FiniteSets, TLC

\* ------------------------------------------------------------------ bounds
MaxSeals  == 2      \* pushes performed by the encoder
MaxLen    == 1      \* longest plaintext / largest Read buffer
MaxReads  == 2      \* Read calls made on the decoder
MaxTamper == 1      \* bytes changed on the wire

\* crypto_secretstream_xchacha20poly1305_abytes(): the bytes a frame has more
\* than its plaintext.  The code asks libsodium for the number at run time (17
\* there) and only ever adds it, subtracts it and compares with it; the model
\* scales it down.  From 3 on, the retry loop of Read can take l past the
\* scratch buffer of a Read with an empty b.
ABYTES == 3

\* -------------------------------------------------------- program constants
HEADERBYTES == 24   \* crypto_secretstream_xchacha20poly1305_headerbytes()

SecretStreamTag_Message == 0
SecretStreamTag_Sync    == 1
SecretStreamTag_Rekey   == 2

TAG_MESSAGE == 0    \* crypto_secretstream_xchacha20poly1305_tag_message()
TAG_PUSH    == 1    \* crypto_secretstream_xchacha20poly1305_tag_push()
TAG_REKEY   == 2    \* crypto_secretstream_xchacha20poly1305_tag_rekey()
TAG_FINAL   == 3    \* crypto_secretstream_xchacha20poly1305_tag_final()

\* ------------------------------------------------------------- input sets
Byte       == {1}
Plaintexts == UNION {[1..n -> Byte] : n \in 0..MaxLen}
ADs        == {<<>>, <<1>>}
GoTags     == {SecretStreamTag_Message, SecretStreamTag_Sync, SecretStreamTag_Rekey}
HeaderLens == {HEADERBYTES - 1, HEADERBYTES, HEADERBYTES + 1}
SrcErrs    == {"nil", "EOF"}
IoErrs     == {"nil", "ErrIO"}

Min(a, b) == IF a < b THEN a ELSE b

VARIABLES
    \* encoder (SecretStreamXCPEncoder)
    e_final,    \* field final
    e_tag,      \* field tag
    e_ad,       \* field ad
    e_ret,      \* what the last Write / WriteAndClose / Close returned, with
                \* the facts of that call
    sealed,     \* one record per push: what the frame seals (the encoder's
                \* stream state is Len(sealed))
    wire,       \* the bytes the sink accepted, in order
    shipped,    \* TRUE once the writing side is done and the wire is carried
                \* to the reading side
    \* history of the encoder's callers
    e_closed,   \* TRUE once a WriteAndClose or a Close has returned
    e_argAd,    \* argument of the latest SetAdditionData, and whether a push
    e_argTag,   \* has used it since; likewise for SetTag
    \* transport
    rpos,       \* bytes of wire the source has delivered
    ntamper,    \* bytes changed on the wire so far
    \* decoder (SecretStreamXCPDecoder)
    d_st,       \* what MakeSecretStreamXCPDecoder did: "none" (not called yet),
                \* "ready" (decoder returned), "ErrInvalidHeader", "panic";
                \* "fault" once a Read has crashed the process
    d_hdr,      \* the length of the header given
    d_final,    \* field final
    d_tag,      \* field tag
    d_ad,       \* field ad
    d_state,    \* stream state: number of frames opened
    d_pc,       \* position in Read: "idle" | "loop"
    d_loc,      \* Read's locals: b, c, l, err, and what the source did
    d_ret,      \* what the last Read returned, with the facts of that call
    d_hist      \* history of the decoder's Reads

vars == <<e_final, e_tag, e_ad, e_ret, sealed, wire, shipped, e_closed, e_argAd, e_argTag,
          rpos, ntamper, d_st, d_hdr, d_final, d_tag, d_ad, d_state, d_pc,
          d_loc, d_ret, d_hist>>

encVars == <<e_final, e_tag, e_ad, e_ret, sealed, wire, shipped, e_closed, e_argAd, e_argTag>>
decVars == <<d_st, d_hdr, d_final, d_tag, d_ad, d_state, d_pc, d_loc, d_ret, d_hist>>

\* ------------------------------------------------------------------- tags

\* fromCtag without its case for the push tag.
fromCtag_NoSync(ctag) ==
    CASE ctag = TAG_REKEY -> SecretStreamTag_Rekey
      [] OTHER            -> SecretStreamTag_Message

\* func (tag *SecretStreamTag) fromCtag(ctag C.uchar)
fromCtag(ctag) ==
    CASE ctag = TAG_PUSH  -> SecretStreamTag_Sync
      [] ctag = TAG_REKEY -> SecretStreamTag_Rekey
      [] OTHER            -> SecretStreamTag_Message

\* func (tag SecretStreamTag) toCtag() (ctag C.uchar)
toCtag(tag) ==
    CASE tag = SecretStreamTag_Sync  -> TAG_PUSH
      [] tag = SecretStreamTag_Rekey -> TAG_REKEY
      [] OTHER                       -> TAG_MESSAGE

\* ------------------------------------------------------------ the primitive

ZeroByte == <<0, 0>>        \* make([]byte, n) zeroes the buffer
Beyond   == <<-1, -1>>      \* whatever lies past the end of a buffer
Flip(x)  == <<x[1], -x[2]>> \* a wire byte with a bit changed

\* A frame no longer than its plaintext.
FrameLen_PlaintextOnly(ml) == ml

\* c := make([]byte, ml + abytes()): the length of the frame of a plaintext
FrameLen(ml) == ml + ABYTES

\* The frame the k-th push writes into c.
Frame(k, ml) == [j \in 1..FrameLen(ml) |-> <<k, j>>]

\* The sink took the frame of the k-th push.
Sunk(k) == \E i \in 1..Len(wire) : wire[i][1] = k

\* crypto_secretstream_xchacha20poly1305_push: libsodium's push returns 0 for
\* every message within its length limit.
PushRc(m) == 0

\* crypto_secretstream_xchacha20poly1305_pull(state, m, NULL, &tag, c, l, ad).
\* in is the l bytes at c.  On rejection libsodium leaves m alone and has set
\* *tag_p to 0xff.
PullFailTag == 255
Pull(k, in, ad) ==
    LET ok == /\ k + 1 <= Len(sealed)
              /\ Len(in) = FrameLen(Len(sealed[k + 1].m))
              /\ \A j \in 1..Len(in) : in[j] = <<k + 1, j>>
              /\ ad = sealed[k + 1].ad
    IN  IF ok
        THEN [rc |-> 0,  m |-> sealed[k + 1].m, tag |-> sealed[k + 1].ctag]
        ELSE [rc |-> -1, m |-> <<>>,            tag |-> PullFailTag]


\* ---------------------------------------------------------------- encoder

\* The facts of an encoder call: what it returned (n, err), whether it was
\* made after a WriteAndClose or Close had returned, how many times it called
\* e.out.Write, with a frame of which length (flen) and with which err from
\* the sink (sinkErr), and, when it pushed, the associated data and tag it
\* gave to push together with the latest arguments of the setters and whether
\* an earlier push had already used them.
NoCall == [op |-> "none", n |-> 0, err |-> "nil", after |-> FALSE, writes |-> 0,
           flen |-> 0, sinkErr |-> "nil",
           pushed |-> FALSE, ad |-> <<>>, ctag |-> TAG_MESSAGE,
           argAd |-> <<>>, adUsed |-> FALSE,
           argTag |-> SecretStreamTag_Message, tagUsed |-> FALSE]

\* The encoder MakeSecretStreamXCPEncoder returns.
Init_Encoder ==
    /\ e_final = FALSE
    /\ e_tag = SecretStreamTag_Message
    /\ e_ad = <<>>
    /\ e_ret = NoCall
    /\ sealed = <<>>
    /\ wire = <<>>
    /\ shipped = FALSE
    /\ e_closed = FALSE
    /\ e_argAd = [v |-> <<>>, used |-> FALSE]
    /\ e_argTag = [v |-> SecretStreamTag_Message, used |-> FALSE]

\* func (e *SecretStreamXCPEncoder) SetAdditionData(ad []byte)
Encoder_SetAdditionData(ad) ==
    /\ ~shipped /\ Len(sealed) < MaxSeals
    /\ e_ad' = ad
    /\ e_argAd' = [v |-> ad, used |-> FALSE]
    /\ UNCHANGED <<e_final, e_tag, e_ret, sealed, wire, shipped, e_closed, e_argTag>>
    /\ UNCHANGED <<rpos, ntamper>>
    /\ UNCHANGED decVars

\* func (e *SecretStreamXCPEncoder) SetTag(t SecretStreamTag)
Encoder_SetTag(t) ==
    /\ ~shipped /\ Len(sealed) < MaxSeals
    /\ e_tag' = t
    /\ e_argTag' = [v |-> t, used |-> FALSE]
    /\ UNCHANGED <<e_final, e_ad, e_ret, sealed, wire, shipped, e_closed, e_argAd>>
    /\ UNCHANGED <<rpos, ntamper>>
    /\ UNCHANGED decVars

\* `if e.final { return n, ErrInvalidState }` of Write and WriteAndClose
FinalCheck(final) == final

\* WriteAndClose sealing with the pending tag.
WriteAndCloseTag_Pending(tag) == toCtag(tag)

\* The tag each operation hands to push.
WriteTag(tag)         == toCtag(tag)
WriteAndCloseTag(tag) == TAG_FINAL
CloseTag(tag)         == TAG_FINAL

\* The associated data dropped on the way to the primitive.
PendingAd_Dropped(ad) == <<>>

\* adp, adl := plen(e.ad): the associated data handed to push / pull
PendingAd(ad) == ad

\* A rejected call that puts the pending tag back to its default.
Rejected_ResetsTag(op) ==
    /\ e_ret' = [NoCall EXCEPT !.op = op, !.err = "ErrInvalidState",
                               !.after = e_closed]
    /\ e_tag' = SecretStreamTag_Message
    /\ UNCHANGED <<e_final, e_ad, sealed, wire, e_argAd, e_argTag>>

\* The rejected call: nothing but the return values.
Rejected(op) ==
    /\ e_ret' = [NoCall EXCEPT !.op = op, !.err = "ErrInvalidState",
                               !.after = e_closed]
    /\ UNCHANGED <<e_final, e_tag, e_ad, sealed, wire, e_argAd, e_argTag>>

\* push into a fresh c, then e.out.Write(c).  The sink takes the whole frame
\* and returns (len(c), nil), or takes nothing and returns (0, err).  The
\* operations below are given the set of outcomes their sink may have.
PushAndWrite(op, b, ctag, sinkOk) ==
    /\ Len(sealed) < MaxSeals
    /\ IF PushRc(b) # 0
       THEN /\ e_ret' = [NoCall EXCEPT !.op = op, !.err = "ErrUnknown",
                                       !.after = e_closed]
            /\ UNCHANGED <<sealed, wire, e_argAd, e_argTag>>
       ELSE /\ sealed' = Append(sealed,
                                [m |-> b, ad |-> PendingAd(e_ad), ctag |-> ctag])
            /\ wire' = IF sinkOk THEN wire \o Frame(Len(sealed) + 1, Len(b))
                                 ELSE wire
            /\ e_ret' = [op |-> op,
                         n |-> IF sinkOk THEN FrameLen(Len(b)) ELSE 0,
                         err |-> IF sinkOk THEN "nil" ELSE "ErrIO",
                         after |-> e_closed, writes |-> 1,
                         flen |-> Len(Frame(Len(sealed) + 1, Len(b))),
                         sinkErr |-> IF sinkOk THEN "nil" ELSE "ErrIO",
                         pushed |-> TRUE,
                         ad |-> PendingAd(e_ad), ctag |-> ctag,
                         argAd |-> e_argAd.v, adUsed |-> e_argAd.used,
                         argTag |-> e_argTag.v, tagUsed |-> e_argTag.used]
            /\ e_argAd' = [e_argAd EXCEPT !.used = TRUE]
            /\ e_argTag' = [e_argTag EXCEPT !.used = TRUE]
    /\ UNCHANGED <<e_tag, e_ad>>

\* func (e *SecretStreamXCPEncoder) Write(b []byte) (n int, err error)
Encoder_Write(b, sink) ==
    /\ ~shipped
    /\ IF FinalCheck(e_final)
       THEN Rejected("Write")
       ELSE \E sinkOk \in sink :
                PushAndWrite("Write", b, WriteTag(e_tag), sinkOk)
    /\ UNCHANGED <<e_final, e_closed, shipped>>
    /\ UNCHANGED <<rpos, ntamper>>
    /\ UNCHANGED decVars

\* func (e *SecretStreamXCPEncoder) WriteAndClose(b []byte) (n int, err error)
Encoder_WriteAndClose(b, sink) ==
    /\ ~shipped
    /\ IF FinalCheck(e_final)
       THEN Rejected("WriteAndClose") /\ UNCHANGED <<e_final, e_closed>>
       ELSE /\ \E sinkOk \in sink :
                   PushAndWrite("WriteAndClose", b, WriteAndCloseTag(e_tag), sinkOk)
            /\ IF PushRc(b) # 0 THEN UNCHANGED e_final ELSE e_final' = TRUE
            /\ e_closed' = TRUE
    /\ UNCHANGED shipped
    /\ UNCHANGED <<rpos, ntamper>>
    /\ UNCHANGED decVars

\* func (e *SecretStreamXCPEncoder) Close() error
Encoder_Close(sink) ==
    /\ ~shipped
    /\ \E sinkOk \in sink :
           PushAndWrite("Close", <<>>, CloseTag(e_tag), sinkOk)
    /\ IF PushRc(<<>>) # 0 THEN UNCHANGED e_final ELSE e_final' = TRUE
    /\ e_closed' = TRUE
    /\ UNCHANGED shipped
    /\ UNCHANGED <<rpos, ntamper>>
    /\ UNCHANGED decVars

\* -------------------------------------------------------------- transport

\* The writing side is done: its encoder is dropped (the model forgets its
\* fields) and what the sink holds is carried to the reading side.  What the
\* frames seal stays: it is what the shared key makes of the bytes.
Handover ==
    /\ ~shipped
    /\ shipped' = TRUE
    /\ e_final' = FALSE
    /\ e_tag' = SecretStreamTag_Message
    /\ e_ad' = <<>>
    /\ e_ret' = NoCall
    /\ e_closed' = FALSE
    /\ e_argAd' = [v |-> <<>>, used |-> FALSE]
    /\ e_argTag' = [v |-> SecretStreamTag_Message, used |-> FALSE]
    /\ UNCHANGED <<sealed, wire>>
    /\ UNCHANGED <<rpos, ntamper>>
    /\ UNCHANGED decVars

\* The wire is in the hands of whoever carries it: a byte may be changed
\* before the reading side gets it.
Tamper(i) ==
    /\ shipped /\ d_st = "none"
    /\ ntamper < MaxTamper
    /\ i \in 1..Len(wire)
    /\ wire' = [wire EXCEPT ![i] = Flip(@)]
    /\ ntamper' = ntamper + 1
    /\ UNCHANGED <<e_final, e_tag, e_ad, e_ret, sealed, shipped, e_closed,
                   e_argAd, e_argTag>>
    /\ UNCHANGED rpos
    /\ UNCHANGED decVars

\* What one call e.in.Read(p) with len(p) = cap may deliver (io.Reader): any
\* count from 0 to cap that the wire can supply.
SrcCounts(cap) == 0..Min(cap, Len(wire) - rpos)

\* ---------------------------------------------------------------- decoder

\* The facts of a Read call: what it returned (n, err, and b as it left it),
\* the decoder's fields before and after, what the source did (single: one
\* e.in.Read was made; srcErr: the err of the last one; total: l), what pull
\* was given and what it answered.
NoRead == [idx |-> 0, L |-> 0, n |-> 0, err |-> "nil", b |-> <<>>,
           pulled |-> FALSE, rc |-> 0, ctag |-> 0, cap |-> 0, total |-> 0,
           k |-> 0, ad |-> <<>>, single |-> TRUE, srcErr |-> "nil",
           flipped |-> FALSE, inOrder |-> TRUE, tampered |-> 0,
           prevClean |-> TRUE, sawFinal |-> FALSE,
           adArg |-> <<>>,
           tag |-> SecretStreamTag_Message, tagBefore |-> SecretStreamTag_Message,
           final |-> FALSE, finalBefore |-> FALSE]

\* Read's locals; got is what the source has delivered to this call, in
\* order, and turn tells one turn of the retry loop from the next.
NoLocals == [L |-> 0, b |-> <<>>, c |-> <<>>, l |-> 0, err |-> "nil",
             single |-> TRUE, got |-> <<>>, turn |-> FALSE]

Init_Decoder ==
    /\ d_st = "none"
    /\ d_hdr = HEADERBYTES
    /\ d_final = FALSE
    /\ d_tag = SecretStreamTag_Message
    /\ d_ad = <<>>
    /\ d_state = 0
    /\ d_pc = "idle"
    /\ d_loc = NoLocals
    /\ d_ret = NoRead
    /\ d_hist = [idx |-> 0, clean |-> TRUE, sawFinal |-> FALSE, argAd |-> <<>>]

\* checkTypedSize(&header, "secret stream header"): a function without a
\* result; it returns when the length is the type's Size() and panics otherwise.
checkTypedSize(len, size) == len = size

\* crypto_secretstream_xchacha20poly1305_init_pull: libsodium's returns 0.
InitPullRc(hlen) == 0

\* func MakeSecretStreamXCPDecoder(key, in, header) (SecretStreamDecoder, error)
\* with the encoder's key and a header of hlen bytes.
MakeSecretStreamXCPDecoder(hlen) ==
    /\ shipped /\ d_st = "none"
    /\ d_hdr' = hlen
    /\ d_st' = IF ~checkTypedSize(hlen, HEADERBYTES) THEN "panic"
               ELSE IF InitPullRc(hlen) # 0 THEN "ErrInvalidHeader"
               ELSE "ready"
    /\ UNCHANGED <<d_final, d_tag, d_ad, d_state, d_pc, d_loc, d_ret, d_hist>>
    /\ UNCHANGED <<rpos, ntamper>>
    /\ UNCHANGED encVars

\* func (e *SecretStreamXCPDecoder) SetAdditionData(ad []byte)
Decoder_SetAdditionData(ad) ==
    /\ d_st = "ready" /\ d_pc = "idle"
    /\ d_hist.idx < MaxReads
    /\ d_ad' = ad
    /\ d_hist' = [d_hist EXCEPT !.argAd = ad]
    /\ UNCHANGED <<d_st, d_hdr, d_final, d_tag, d_state, d_pc, d_loc, d_ret>>
    /\ UNCHANGED <<rpos, ntamper>>
    /\ UNCHANGED encVars

\* Read without its check of the terminal flag.
Read_FinalCheck_Missing(final) == FALSE

\* `if e.final { return n, ErrInvalidState }` of Read
Read_FinalCheck(final) == final

\* c := make([]byte, bl + abytes())
ScratchLen(bl) == bl + ABYTES

\* `for l < abytes()`: the condition of the retry loop
NeedMore(l) == l < ABYTES

\* c[:l], the slice the retry loop reads into: its length
RetrySlice(l) == l

\* The short frame returned as (0, nil).
ShortFrameErr_Nil(err) == "nil"

\* `return 0, ErrDecryptSS` when the source has failed with the frame short
ShortFrameErr(err) == "ErrDecryptSS"

\* n taken to be the length of the frame.
PlainLen_Whole(l) == l

\* n = l - abytes()
PlainLen(l) == l - ABYTES

\* No tag taken for the final tag.
IsFinalTag_Never(ctag) == FALSE

\* tag == crypto_secretstream_xchacha20poly1305_tag_final()
IsFinalTag(ctag) == ctag = TAG_FINAL

\* Read without `err = ErrDecryptSS` after a pull that rejects.
ReadErr_KeepsSourceErr(srcErr, rc, ctag) ==
    IF IsFinalTag(ctag) THEN "EOF" ELSE srcErr

\* The err Read returns after pull: the source's err, replaced by ErrDecryptSS
\* when pull rejects, replaced by io.EOF when the tag is final.
ReadErr(srcErr, rc, ctag) ==
    IF IsFinalTag(ctag) THEN "EOF"
    ELSE IF rc # 0 THEN "ErrDecryptSS"
    ELSE srcErr

Zeros(n) == [j \in 1..n |-> 0]

\* The next k bytes of the wire.
Next_k(k) == [j \in 1..k |-> wire[rpos + j]]

\* The source copies k bytes to the front of p.
Deliver(p, k) == [j \in 1..Len(p) |-> IF j <= k THEN wire[rpos + j] ELSE p[j]]

\* The facts of the Read call that is returning.
ReadFacts ==
    [NoRead EXCEPT !.idx = d_hist.idx, !.L = d_loc.L, !.b = d_loc.b,
                   !.cap = Len(d_loc.c), !.k = d_state, !.ad = d_ad,
                   !.single = d_loc.single, !.srcErr = d_loc.err,
                   !.total = d_loc.l, !.tampered = ntamper,
                   !.prevClean = d_hist.clean, !.sawFinal = d_hist.sawFinal,
                   !.adArg = d_hist.argAd,
                   !.tag = d_tag, !.tagBefore = d_tag,
                   !.final = d_final, !.finalBefore = d_final]

\* Read, from its entry to the return of the first e.in.Read(c); errs is the
\* set of errs the source may return.
Decoder_Read(L, errs) ==
    /\ d_st = "ready" /\ d_pc = "idle"
    /\ d_hist.idx < MaxReads
    /\ IF Read_FinalCheck(d_final)
       THEN /\ d_hist' = [d_hist EXCEPT !.idx = @ + 1]
            /\ d_ret' = [ReadFacts EXCEPT !.idx = d_hist.idx + 1, !.L = L,
                                          !.b = Zeros(L), !.err = "ErrInvalidState",
                                          !.single = FALSE]
            /\ UNCHANGED <<d_pc, d_loc, rpos>>
       ELSE /\ \E k \in SrcCounts(ScratchLen(L)), err \in errs :
                   /\ d_loc' = [L |-> L, b |-> Zeros(L),
                                c |-> Deliver([j \in 1..ScratchLen(L) |-> ZeroByte], k),
                                l |-> k, err |-> err, single |-> TRUE,
                                got |-> Next_k(k), turn |-> FALSE]
                   /\ rpos' = rpos + k
            /\ d_pc' = "loop"
            /\ d_hist' = [d_hist EXCEPT !.idx = @ + 1]
            /\ d_ret' = NoRead
    /\ UNCHANGED <<d_st, d_hdr, d_final, d_tag, d_ad, d_state>>
    /\ UNCHANGED ntamper
    /\ UNCHANGED encVars

\* One turn of the retry loop: more, err = e.in.Read(c[:l]); l += more
Decoder_Read_Retry(errs) ==
    /\ d_pc = "loop"
    /\ NeedMore(d_loc.l) /\ d_loc.err = "nil"
    /\ \E more \in SrcCounts(RetrySlice(d_loc.l)), err \in errs :
           /\ d_loc' = [d_loc EXCEPT !.c = Deliver(@, more), !.l = @ + more,
                                     !.err = err, !.single = FALSE,
                                     !.got = @ \o Next_k(more),
                                     !.turn = ~@]
           /\ rpos' = rpos + more
    /\ UNCHANGED <<d_st, d_hdr, d_final, d_tag, d_ad, d_state, d_pc, d_ret, d_hist>>
    /\ UNCHANGED ntamper
    /\ UNCHANGED encVars

\* The loop's `if err != nil { return 0, ErrDecryptSS }`
Decoder_Read_Short ==
    /\ d_pc = "loop"
    /\ NeedMore(d_loc.l) /\ d_loc.err # "nil"
    /\ d_ret' = [ReadFacts EXCEPT !.n = 0, !.err = ShortFrameErr(d_loc.err)]
    /\ d_hist' = [d_hist EXCEPT !.clean = FALSE]
    /\ d_pc' = "idle"
    /\ d_loc' = NoLocals
    /\ UNCHANGED <<d_st, d_hdr, d_final, d_tag, d_ad, d_state>>
    /\ UNCHANGED <<rpos, ntamper>>
    /\ UNCHANGED encVars

\* Read from the call of pull to its return.  pull is told to open l bytes at
\* &c[0]; when l exceeds len(c) it reads past the buffer, which the process
\* may or may not survive.
Decoder_Read_Pull ==
    /\ d_pc = "loop"
    /\ ~NeedMore(d_loc.l)
    /\ LET l     == d_loc.l
           c     == d_loc.c
           frame == [j \in 1..l |-> IF j <= Len(c) THEN c[j] ELSE Beyond]
           r     == Pull(d_state, frame, PendingAd(d_ad))
           err   == ReadErr(d_loc.err, r.rc, r.tag)
           b     == [j \in 1..d_loc.L |-> IF j <= Len(r.m) THEN r.m[j] ELSE d_loc.b[j]]
           final == IF IsFinalTag(r.tag) THEN TRUE ELSE d_final
           clean == /\ d_hist.clean /\ ntamper = 0
                    /\ d_loc.single /\ l = Len(c)
                    /\ d_hist.idx <= Len(sealed)
                    /\ \A i \in 1..d_hist.idx : Sunk(i)
                    /\ d_loc.L = Len(sealed[d_hist.idx].m)
                    /\ d_ad = sealed[d_hist.idx].ad
       IN  \E fault \in (IF l > Len(c) THEN BOOLEAN ELSE {FALSE}) :
             IF fault
             THEN /\ d_st' = "fault"
                  /\ UNCHANGED <<d_final, d_tag, d_state, d_ret, d_hist>>
             ELSE /\ d_state' = IF r.rc = 0 THEN d_state + 1 ELSE d_state
                  /\ d_tag' = fromCtag(r.tag)
                  /\ d_final' = final
                  /\ d_ret' = [ReadFacts EXCEPT
                                 !.n = PlainLen(l), !.err = err, !.b = b,
                                 !.pulled = TRUE, !.rc = r.rc, !.ctag = r.tag,
                                 !.flipped = \E x \in 1..l : frame[x][1] > 0
                                                             /\ frame[x][2] < 0,
                                 !.inOrder = (frame = d_loc.got),
                                 !.tag = fromCtag(r.tag), !.final = final]
                  /\ d_hist' = [d_hist EXCEPT
                                  !.clean = clean,
                                  !.sawFinal = @ \/ (r.rc = 0 /\ r.tag = TAG_FINAL)]
                  /\ UNCHANGED d_st
    /\ d_pc' = "idle"
    /\ d_loc' = NoLocals
    /\ UNCHANGED <<d_hdr, d_ad>>
    /\ UNCHANGED <<rpos, ntamper>>
    /\ UNCHANGED encVars

\* ------------------------------------------------------------ specification

Init ==
    /\ Init_Encoder
    /\ Init_Decoder
    /\ rpos = 0
    /\ ntamper = 0

\* A sink that takes every frame, and one that may fail.
Reliable   == {TRUE}
Unreliable == BOOLEAN

\* A stream written to a reliable sink, carried to the reading side by a
\* transport that may change a byte, and read through a source that delivers
\* as much as it likes and fails when it likes.
Next ==
    \/ \E ad \in ADs : Encoder_SetAdditionData(ad)
    \/ \E t \in GoTags : Encoder_SetTag(t)
    \/ \E b \in Plaintexts : Encoder_Write(b, Reliable)
    \/ \E b \in Plaintexts : Encoder_WriteAndClose(b, Reliable)
    \/ Encoder_Close(Reliable)
    \/ Handover
    \/ \E i \in 1..Len(wire) : Tamper(i)
    \/ \E hlen \in HeaderLens : MakeSecretStreamXCPDecoder(hlen)
    \/ \E ad \in ADs : Decoder_SetAdditionData(ad)
    \/ \E L \in 0..MaxLen : Decoder_Read(L, SrcErrs)
    \/ Decoder_Read_Retry(SrcErrs)
    \/ Decoder_Read_Short
    \/ Decoder_Read_Pull

Spec == Init /\ [][Next]_vars

\* The encoder alone, on a sink that may fail.
NextEnc ==
    \/ \E ad \in ADs : Encoder_SetAdditionData(ad)
    \/ \E t \in GoTags : Encoder_SetTag(t)
    \/ \E b \in Plaintexts : Encoder_Write(b, Unreliable)
    \/ \E b \in Plaintexts : Encoder_WriteAndClose(b, Unreliable)
    \/ Encoder_Close(Unreliable)

SpecEnc == Init /\ [][NextEnc]_vars

\* A stream written with the default tag and associated data to a sink that
\* may fail, carried unchanged to the reading side and read through a source
\* that delivers as much as it likes and may fail with an I/O error.
NextIO ==
    \/ \E b \in Plaintexts : Encoder_Write(b, Unreliable)
    \/ \E b \in Plaintexts : Encoder_WriteAndClose(b, Unreliable)
    \/ Encoder_Close(Unreliable)
    \/ Handover
    \/ \E hlen \in HeaderLens : MakeSecretStreamXCPDecoder(hlen)
    \/ \E L \in 0..MaxLen : Decoder_Read(L, IoErrs)
    \/ Decoder_Read_Retry(IoErrs)
    \/ Decoder_Read_Short
    \/ Decoder_Read_Pull

\* A Read that has been called runs on: the statement it is at is executed.
\* Nothing is asked of the source but that each of its Read calls returns.
ReadRuns ==
    /\ WF_vars(Decoder_Read_Retry(IoErrs))
    /\ WF_vars(Decoder_Read_Short)
    /\ WF_vars(Decoder_Read_Pull)

SpecIO == Init /\ [][NextIO]_vars /\ ReadRuns


\* ------------------------------------------------------------------ claims

\* The Read that has returned was clean: so was every Read before it, no byte
\* of the wire was changed, the sink took the frames up to this one, b had the
\* length of this frame's plaintext, one source read delivered the whole
\* frame, and the decoder's associated data was the encoder's.
CleanRead(r) ==
    /\ r.prevClean /\ r.tampered = 0
    /\ r.idx \in 1..Len(sealed)
    /\ \A i \in 1..r.idx : Sunk(i)
    /\ r.L = Len(sealed[r.idx].m)
    /\ r.single /\ r.total = r.cap
    /\ r.ad = sealed[r.idx].ad

\* C1: round trip.  The i-th Read of a run of clean Reads returns n = len(mi)
\* and leaves b equal to mi, the plaintext of the i-th frame written.
C1_RoundTrip ==
    (d_ret.pulled /\ CleanRead(d_ret))
        => /\ d_ret.n = Len(sealed[d_ret.idx].m)
           /\ d_ret.b = sealed[d_ret.idx].m

\* The second Read of a clean run has returned a non-empty plaintext, sealed by
\* WriteAndClose with non-empty associated data.
C1_Witness ==
    /\ d_ret.pulled /\ CleanRead(d_ret)
    /\ d_ret.idx = 2 /\ d_ret.b = <<1>> /\ d_ret.ad = <<1>>
    /\ d_ret.ctag = TAG_FINAL

\* The tag a frame was sealed with, as a SecretStreamTag; the type has no
\* constant for the final tag, which is told apart here by libsodium's value.
SealedTag(ctag) ==
    CASE ctag = TAG_PUSH    -> SecretStreamTag_Sync
      [] ctag = TAG_REKEY   -> SecretStreamTag_Rekey
      [] ctag = TAG_FINAL   -> TAG_FINAL
      [] OTHER              -> SecretStreamTag_Message

\* C2 as claimed: after a successful Read, Tag() is the tag the frame was
\* sealed with, for Message, Sync, Rekey and Final.
C2_TagRecovered ==
    (d_pc = "idle" /\ d_ret.pulled /\ d_ret.rc = 0)
        => d_tag = SealedTag(sealed[d_ret.k + 1].ctag)

\* C2 as amended: after a successful Read, Tag() is the tag the frame was
\* sealed with for Message, Sync and Rekey, and is Message for a frame sealed
\* with the final tag.
C2_TagRecoveredButFinal ==
    (d_pc = "idle" /\ d_ret.pulled /\ d_ret.rc = 0)
        => d_tag = IF sealed[d_ret.k + 1].ctag = TAG_FINAL
                   THEN SecretStreamTag_Message
                   ELSE SealedTag(sealed[d_ret.k + 1].ctag)

\* A Read has opened a Sync frame and the next one the final frame.
C2_Witness ==
    /\ d_pc = "idle" /\ d_ret.pulled /\ d_ret.rc = 0
    /\ d_ret.k = 1 /\ d_ret.tagBefore = SecretStreamTag_Sync
    /\ sealed[2].ctag = TAG_FINAL /\ d_tag = SecretStreamTag_Message

\* C3: a Read returns io.EOF exactly when it has opened a frame sealed with
\* the final tag.
C3_EofExactlyOnFinal ==
    (d_pc = "idle" /\ d_ret.idx > 0)
        => ((d_ret.err = "EOF")
               <=> (d_ret.pulled /\ d_ret.rc = 0 /\ d_ret.ctag = TAG_FINAL))

\* C4: a call of Write, WriteAndClose or Close made after a WriteAndClose or a
\* Close has returned fails with ErrInvalidState.
C4_RejectedAfterClose ==
    e_ret.after => e_ret.err = "ErrInvalidState"

\* C5: among the frames handed to the sink only the last can carry the final
\* tag (so there is at most one, and none follows it).
C5_FinalFrameIsLast ==
    \A i \in 1..Len(sealed) : sealed[i].ctag = TAG_FINAL => i = Len(sealed)

\* C6: a Read made after a Read has opened a frame with the final tag returns
\* (0, ErrInvalidState).
C6_ReadAfterFinal ==
    d_ret.sawFinal => (d_ret.err = "ErrInvalidState" /\ d_ret.n = 0)

\* A Read was rejected while the source still held bytes.
C6_Witness ==
    /\ d_ret.sawFinal /\ d_ret.err = "ErrInvalidState" /\ d_ret.n = 0
    /\ rpos < Len(wire)

\* The decoder's associated data is not what the frame at its state was
\* sealed with.
AdDiffers(r) == r.k + 1 <= Len(sealed) /\ r.ad # sealed[r.k + 1].ad

\* C7: a Read whose pull rejects returns ErrDecryptSS, and pull rejects every
\* frame with a changed byte and every frame opened with other associated
\* data than it was sealed with.
C7_DecryptFailure ==
    /\ (d_ret.pulled /\ d_ret.rc # 0) => d_ret.err = "ErrDecryptSS"
    /\ (d_ret.pulled /\ (d_ret.flipped \/ AdDiffers(d_ret)))
           => (d_ret.rc # 0 /\ d_ret.err = "ErrDecryptSS")

\* The second frame of a stream had a byte changed, and the source returned it
\* together with io.EOF.
C7_Witness ==
    /\ d_ret.pulled /\ d_ret.k = 1 /\ d_ret.flipped
    /\ d_ret.srcErr = "EOF" /\ d_ret.err = "ErrDecryptSS"

\* C8 as claimed: a push that is not the first since the setter was called
\* uses the defaults, empty associated data and (in Write) the message tag.
C8_OneShot ==
    /\ (e_ret.pushed /\ e_ret.adUsed) => e_ret.ad = <<>>
    /\ (e_ret.pushed /\ e_ret.tagUsed /\ e_ret.op = "Write")
           => e_ret.ctag = TAG_MESSAGE

\* C8 as amended: every push and every pull uses the argument of the latest
\* SetAdditionData (empty if there was none), and every Write the argument of
\* the latest SetTag (Message if there was none), however many pushes or pulls
\* have used them before.
C8_Persistent ==
    /\ e_ret.pushed => e_ret.ad = e_ret.argAd
    /\ (e_ret.pushed /\ e_ret.op = "Write") => e_ret.ctag = toCtag(e_ret.argTag)
    /\ d_ret.pulled => d_ret.ad = d_ret.adArg

\* A second Write has sealed with the associated data and the tag set before
\* the first.
C8_Witness ==
    /\ e_ret.pushed /\ e_ret.op = "Write"
    /\ e_ret.adUsed /\ e_ret.tagUsed
    /\ e_ret.ad = <<1>> /\ e_ret.ctag = TAG_PUSH

\* C9: MakeSecretStreamXCPDecoder given a header of another length than
\* HEADERBYTES returns ErrInvalidHeader and reads nothing from the source.
C9_HeaderRejected ==
    (d_st # "none" /\ d_hdr # HEADERBYTES)
        => (d_st = "ErrInvalidHeader" /\ rpos = 0)

\* C10: a Read to which the source delivered fewer than ABYTES bytes in all
\* before it failed returns a non-nil error.
C10_Truncated ==
    (d_ret.idx > 0 /\ d_ret.total < ABYTES /\ d_ret.srcErr # "nil")
        => d_ret.err # "nil"

\* The source delivered two bytes in two reads and then failed.
C10_Witness ==
    /\ d_ret.idx > 0 /\ d_ret.total = 2 /\ ~d_ret.single
    /\ d_ret.srcErr # "nil" /\ d_ret.err = "ErrDecryptSS" /\ d_ret.n = 0

\* C11: an encoder operation that called the sink's Write returns the err that
\* call returned, and a Read to which the source returned an I/O error returns
\* that error.
C11_IoErrorsPropagate ==
    /\ (e_ret.writes = 1 /\ e_ret.sinkErr # "nil") => e_ret.err = e_ret.sinkErr
    /\ (d_pc = "idle" /\ d_ret.idx > 0 /\ d_ret.srcErr = "ErrIO")
           => d_ret.err = "ErrIO"

\* The bytes the source still held when the Read that has returned was called.
HeldAtCall == Len(wire) - (rpos - d_ret.total)

\* C12: a Read whose source held a whole scratch frame (len(b) + ABYTES bytes)
\* and never returned an error gives pull exactly that many bytes, however
\* the source split them.
C12_FullFrame ==
    (d_pc = "idle" /\ d_ret.pulled /\ d_ret.srcErr = "nil"
        /\ HeldAtCall >= d_ret.cap)
        => d_ret.total = d_ret.cap

\* C13: the bytes a Read gives to pull are the bytes the source delivered to
\* it, in the order of their arrival.
C13_PartialReadsAppend ==
    (d_pc = "idle" /\ d_ret.pulled) => d_ret.inOrder

\* C14: a Write or WriteAndClose that is not rejected calls the sink's Write
\* once, with a frame of len(b) + ABYTES bytes, and returns that length when
\* the sink takes the frame; a Close calls the sink's Write once, with a frame
\* of ABYTES bytes.
C14_OneFramePerCall ==
    /\ (e_ret.op \in {"Write", "WriteAndClose"} /\ e_ret.err # "ErrInvalidState")
           => /\ e_ret.pushed
              /\ e_ret.writes = 1
              /\ e_ret.flen = Len(sealed[Len(sealed)].m) + ABYTES
              /\ (e_ret.sinkErr = "nil" => e_ret.n = e_ret.flen)
    /\ e_ret.op = "Close"
           => (e_ret.pushed /\ e_ret.writes = 1 /\ e_ret.flen = ABYTES)

\* A Write of one byte has returned the length of its frame, after a Write
\* whose frame the sink refused.
C14_Witness ==
    /\ e_ret.op = "Write" /\ e_ret.err = "nil"
    /\ Len(sealed) = 2 /\ sealed[2].m = <<1>> /\ sealed[1].ctag = TAG_MESSAGE
    /\ e_ret.n = 1 + ABYTES /\ Len(wire) = 1 + ABYTES

\* C15: WriteAndClose seals with the final tag whatever the pending tag, the
\* terminal flag is set when it has succeeded, and a Write or WriteAndClose
\* called after it has returned fails with ErrInvalidState.
C15_WriteAndCloseFinal ==
    /\ (e_ret.op = "WriteAndClose" /\ e_ret.pushed)
           => (e_ret.ctag = TAG_FINAL /\ sealed[Len(sealed)].ctag = TAG_FINAL)
    /\ (e_ret.op = "WriteAndClose" /\ e_ret.pushed /\ e_ret.err = "nil")
           => e_final
    /\ (e_ret.op \in {"Write", "WriteAndClose"} /\ e_ret.after)
           => e_ret.err = "ErrInvalidState"

\* With the pending tag Sync, a WriteAndClose of one byte has succeeded and the
\* Write after it was rejected.
C15_Witness ==
    /\ e_ret.op = "Write" /\ e_ret.after /\ e_ret.err = "ErrInvalidState"
    /\ e_tag = SecretStreamTag_Sync /\ e_final
    /\ Len(sealed) = 1 /\ sealed[1].m = <<1>> /\ sealed[1].ctag = TAG_FINAL
    /\ Len(wire) = 1 + ABYTES

\* The terminal flag of the encoder, as long as the writing side has it, is set
\* exactly when one of its pushes sealed with the final tag; the decoder's is
\* set exactly when one of its pulls has returned the final tag.
FlagTracksFinal ==
    /\ ~shipped => (e_final <=> \E i \in 1..Len(sealed) : sealed[i].ctag = TAG_FINAL)
    /\ d_final <=> d_hist.sawFinal

\* No step clears a terminal flag.
FlagStays ==
    /\ (e_final /\ ~shipped') => e_final'
    /\ d_final => d_final'

\* C16: the terminal flags track the final tag (so a Write, whatever the
\* pending tag, never sets the encoder's) and, once set, stay set.
C16_FlagTracksFinal ==
    []FlagTracksFinal /\ [][FlagStays]_vars

\* The decoder's flag is set by the second frame, after a frame written with
\* the pending tag Rekey that left it clear.
C16_Witness ==
    /\ d_final /\ d_state = 2 /\ d_ret.pulled /\ ~d_ret.finalBefore
    /\ sealed[1].ctag = TAG_REKEY /\ sealed[2].ctag = TAG_FINAL

\* C17: every Read that has been called returns.
C17_ReadTerminates ==
    (d_pc = "loop") ~> (d_pc = "idle")

\* C18: the length l a Read gives to pull is at least ABYTES and at most the
\* length of the scratch buffer c made for that Read.
C18_FrameLengthBound ==
    (d_pc = "loop" /\ ~NeedMore(d_loc.l))
        => (ABYTES <= d_loc.l /\ d_loc.l <= Len(d_loc.c))

\* C19: a Read that returns ErrDecryptSS returns n = 0 and leaves the decoder's
\* tag and terminal flag as they were when it was called.
C19_FailedReadNoEffect ==
    (d_pc = "idle" /\ d_ret.idx > 0 /\ d_ret.err = "ErrDecryptSS")
        => /\ d_ret.n = 0
           /\ d_ret.tag = d_ret.tagBefore /\ d_tag = d_ret.tagBefore
           /\ d_ret.final = d_ret.finalBefore /\ d_final = d_ret.finalBefore

\* A step in which a Write, a WriteAndClose or a Read returns ErrInvalidState
\* calls neither sink nor source and changes none of the stream state, the
\* pending tag and associated data, the last tag read and the terminal flag.
RejectionNoEffect ==
    /\ (e_ret' # e_ret /\ e_ret'.err = "ErrInvalidState")
           => /\ e_ret'.writes = 0 /\ ~e_ret'.pushed
              /\ UNCHANGED <<sealed, wire, e_tag, e_ad, e_final>>
    /\ (d_ret' # d_ret /\ d_ret'.err = "ErrInvalidState")
           => /\ d_pc' = "idle"
              /\ UNCHANGED <<rpos, d_state, d_tag, d_ad, d_final>>

\* C20: an operation that returns ErrInvalidState has no effect.
C20_RejectionNoEffect ==
    [][RejectionNoEffect]_vars

\* The second Read of a decoder with associated data set was rejected after
\* the first had opened a final frame, with a second frame left in the source.
C20_Witness ==
    /\ d_ret.err = "ErrInvalidState" /\ d_ret.idx = 2
    /\ d_state = 1 /\ d_final /\ d_ad = <<1>>
    /\ rpos = ABYTES /\ Len(wire) = 2 * ABYTES

====
